---- MODULE Spec2Model ----
(***************************************************************************)
(* Model of the LDA topic extractor: topic_lda/extractor.py (LDAExtractor: *)
(* load_docx, preprocess, vectorize_and_fit, extract_topics, run_pipeline) *)
(* and of the request handler extract_topics_api of main.py.               *)
(*                                                                         *)
(* Text is a sequence of one-character strings, so that strip, lower,      *)
(* re.sub, split, join and title act on characters as the Python does.     *)
(* The library calls are modelled by their documented behaviour:           *)
(*   docx.Document       raises PackageNotFoundError for a path that is no *)
(*                       zip package, ValueError for a package that is no  *)
(*                       Word document                                     *)
(*   CountVectorizer     token_pattern (?u)\b\w\w+\b, stop_words, the      *)
(*                       document-frequency pruning and its ValueErrors    *)
(*   LatentDirichletAllocation.fit  a function of (matrix, n_components,   *)
(*                       seed) whose value TLC cannot compute: the first   *)
(*                       call with given arguments draws the weights, and  *)
(*                       fitMemo returns them to every later call          *)
(*   ndarray.argsort     ascending; the order of equal weights is left to  *)
(*                       the build: drawn on first use, kept in sortMemo   *)
(***************************************************************************)
EXTENDS Integers, Sequences, FiniteSets, TLC

(***************************************************************************)
(* Bounds of the model.                                                    *)
(***************************************************************************)
\* paragraphs in the document at most
MaxParas == 3
\* topic-term weights are drawn from 1..MaxWeight
MaxWeight == 2
\* run_pipeline calls (Spec, SpecReuse) at most
MaxRuns == 2

(***************************************************************************)
(* Program constants.                                                      *)
(***************************************************************************)
MinParagraphLen == 30
MinTokens == 3
MinDf == 2
MaxDfPercent == 85
DefaultWordsPerTopic == 5

(***************************************************************************)
(* Characters and the str methods the code calls.                          *)
(***************************************************************************)
LowerChars == {"a", "b", "c", "d", "e", "f", "g", "h", "i", "j", "k", "l", "m", "n", "o", "p", "q", "r", "s", "t", "u", "v", "w", "x", "y", "z"}
UpperChars == {"A", "B", "C", "D", "E", "F", "G", "H", "I", "J", "K", "L", "M", "N", "O", "P", "Q", "R", "S", "T", "U", "V", "W", "X", "Y", "Z"}
Digits == {"0", "1", "2", "3", "4", "5", "6", "7", "8", "9"}
Whitespace == {" ", "\t", "\n"}

\* ord(c) of the characters a word can hold
Ord ==
    ("0" :> 48) @@ ("1" :> 49) @@ ("2" :> 50) @@ ("3" :> 51) @@ ("4" :> 52) @@ ("5" :> 53)
    @@ ("6" :> 54) @@ ("7" :> 55) @@ ("8" :> 56) @@ ("9" :> 57) @@ ("A" :> 65) @@ ("B" :> 66)
    @@ ("C" :> 67) @@ ("D" :> 68) @@ ("E" :> 69) @@ ("F" :> 70) @@ ("G" :> 71) @@ ("H" :> 72)
    @@ ("I" :> 73) @@ ("J" :> 74) @@ ("K" :> 75) @@ ("L" :> 76) @@ ("M" :> 77) @@ ("N" :> 78)
    @@ ("O" :> 79) @@ ("P" :> 80) @@ ("Q" :> 81) @@ ("R" :> 82) @@ ("S" :> 83) @@ ("T" :> 84)
    @@ ("U" :> 85) @@ ("V" :> 86) @@ ("W" :> 87) @@ ("X" :> 88) @@ ("Y" :> 89) @@ ("Z" :> 90)
    @@ ("_" :> 95) @@ ("a" :> 97) @@ ("b" :> 98) @@ ("c" :> 99) @@ ("d" :> 100) @@ ("e" :> 101)
    @@ ("f" :> 102) @@ ("g" :> 103) @@ ("h" :> 104) @@ ("i" :> 105) @@ ("j" :> 106) @@ ("k" :> 107)
    @@ ("l" :> 108) @@ ("m" :> 109) @@ ("n" :> 110) @@ ("o" :> 111) @@ ("p" :> 112) @@ ("q" :> 113)
    @@ ("r" :> 114) @@ ("s" :> 115) @@ ("t" :> 116) @@ ("u" :> 117) @@ ("v" :> 118) @@ ("w" :> 119)
    @@ ("x" :> 120) @@ ("y" :> 121) @@ ("z" :> 122)

\* c.lower() of an upper-case letter, c.upper() of a lower-case one
LowerOf ==
    ("A" :> "a") @@ ("B" :> "b") @@ ("C" :> "c") @@ ("D" :> "d") @@ ("E" :> "e") @@ ("F" :> "f")
    @@ ("G" :> "g") @@ ("H" :> "h") @@ ("I" :> "i") @@ ("J" :> "j") @@ ("K" :> "k") @@ ("L" :> "l")
    @@ ("M" :> "m") @@ ("N" :> "n") @@ ("O" :> "o") @@ ("P" :> "p") @@ ("Q" :> "q") @@ ("R" :> "r")
    @@ ("S" :> "s") @@ ("T" :> "t") @@ ("U" :> "u") @@ ("V" :> "v") @@ ("W" :> "w") @@ ("X" :> "x")
    @@ ("Y" :> "y") @@ ("Z" :> "z")
UpperOf ==
    ("a" :> "A") @@ ("b" :> "B") @@ ("c" :> "C") @@ ("d" :> "D") @@ ("e" :> "E") @@ ("f" :> "F")
    @@ ("g" :> "G") @@ ("h" :> "H") @@ ("i" :> "I") @@ ("j" :> "J") @@ ("k" :> "K") @@ ("l" :> "L")
    @@ ("m" :> "M") @@ ("n" :> "N") @@ ("o" :> "O") @@ ("p" :> "P") @@ ("q" :> "Q") @@ ("r" :> "R")
    @@ ("s" :> "S") @@ ("t" :> "T") @@ ("u" :> "U") @@ ("v" :> "V") @@ ("w" :> "W") @@ ("x" :> "X")
    @@ ("y" :> "Y") @@ ("z" :> "Z")

Range(s) == {s[i] : i \in DOMAIN s}
EmptyMemo == [k \in {} |-> <<>>]
Max(a, b) == IF a >= b THEN a ELSE b
Min(a, b) == IF a <= b THEN a ELSE b

IsLower(c) == c \in LowerChars
IsUpper(c) == c \in UpperChars
IsCased(c) == IsLower(c) \/ IsUpper(c)
IsSpace(c) == c \in Whitespace
IsWordChar(c) == IsCased(c) \/ c \in Digits \/ c = "_"

\* str.lower and str.upper on one character
Lower(c) == IF IsUpper(c) THEN LowerOf[c] ELSE c
Upper(c) == IF IsLower(c) THEN UpperOf[c] ELSE c

\* str.lower
LowerStr(s) == [i \in DOMAIN s |-> Lower(s[i])]

\* str.strip
RECURSIVE LStrip(_)
LStrip(s) == IF s # <<>> /\ IsSpace(Head(s)) THEN LStrip(Tail(s)) ELSE s
RECURSIVE RStrip(_)
RStrip(s) ==
    IF s # <<>> /\ IsSpace(s[Len(s)]) THEN RStrip(SubSeq(s, 1, Len(s) - 1)) ELSE s
Strip(s) == RStrip(LStrip(s))

\* str.split(): the maximal runs of non-whitespace characters, left to right
Split(s) ==
    LET starts == {i \in DOMAIN s : ~IsSpace(s[i]) /\ (i = 1 \/ IsSpace(s[i - 1]))}
        EndOf(i) == CHOOSE j \in i..Len(s) :
                        /\ j = Len(s) \/ IsSpace(s[j + 1])
                        /\ \A k \in i..j : ~IsSpace(s[k])
        Nth(k) == CHOOSE i \in starts : Cardinality({j \in starts : j < i}) = k - 1
    IN  [k \in 1..Cardinality(starts) |-> SubSeq(s, Nth(k), EndOf(Nth(k)))]

\* " ".join(words)
RECURSIVE Join(_)
Join(words) ==
    IF words = <<>> THEN <<>>
    ELSE IF Len(words) = 1 THEN words[1]
    ELSE words[1] \o <<" ">> \o Join(Tail(words))

\* str.title(): a cased character is upper-cased unless a cased one precedes it
TitleCase(s) ==
    [i \in DOMAIN s |-> IF i > 1 /\ IsCased(s[i - 1]) THEN Lower(s[i]) ELSE Upper(s[i])]

\* words, not reversed
NoReverse(s) == s

\* seq[::-1]
Reverse(s) == [i \in DOMAIN s |-> s[Len(s) + 1 - i]]

\* the slice forgotten: every index is kept
PySliceAll(s, n) == s

\* seq[-n:], Python's slice: -0 is 0 (the whole sequence), a negative n starts at |n|
PySliceLast(s, n) ==
    LET start == IF n > 0 THEN Max(Len(s) - n, 0) ELSE Min(0 - n, Len(s))
    IN  SubSeq(s, start + 1, Len(s))

\* re.sub(r"[^a-z\s]", " ", txt)
SubNonAlpha(s) == [i \in DOMAIN s |-> IF IsLower(s[i]) \/ IsSpace(s[i]) THEN s[i] ELSE " "]

\* Python's order on str, by code point: sorted() in CountVectorizer
RECURSIVE LexLess(_, _)
LexLess(a, b) ==
    IF a = <<>> THEN b # <<>>
    ELSE IF b = <<>> THEN FALSE
    ELSE IF Head(a) = Head(b) THEN LexLess(Tail(a), Tail(b))
    ELSE Ord[Head(a)] < Ord[Head(b)]

RECURSIVE SortedTerms(_)
SortedTerms(S) ==
    IF S = {} THEN <<>>
    ELSE LET m == CHOOSE x \in S : \A y \in S \ {x} : LexLess(x, y)
         IN  <<m>> \o SortedTerms(S \ {m})

(***************************************************************************)
(* Stop word lists: the entries of nltk's stopwords.words("english") and   *)
(* of scikit-learn's ENGLISH_STOP_WORDS that the words of the model's      *)
(* documents can meet.  "system" is in scikit-learn's list only; the       *)
(* single letters are in nltk's list only.                                 *)
(***************************************************************************)
NltkStopWords ==
    { <<"a">>, <<"a", "n">>, <<"a", "n", "d">>, <<"a", "r", "e">>, <<"f", "o", "r">>, <<"i", "n">>, <<"i", "s">>, <<"i", "t">>, <<"o", "f">>,
      <<"o", "n">>, <<"t", "h", "e">>, <<"t", "o">>, <<"w", "i", "t", "h">>, <<"s">>, <<"t">>, <<"d">>, <<"m">>, <<"o">>, <<"y">> }
SklearnStopWords ==
    { <<"a">>, <<"a", "n">>, <<"a", "n", "d">>, <<"a", "r", "e">>, <<"f", "o", "r">>, <<"i", "n">>, <<"i", "s">>, <<"i", "t">>, <<"o", "f">>,
      <<"o", "n">>, <<"t", "h", "e">>, <<"t", "o">>, <<"w", "i", "t", "h">>, <<"s", "y", "s", "t", "e", "m">>, <<"c", "r", "y">>, <<"f", "i", "r", "e">> }

(***************************************************************************)
(* The documents of the model: every sequence of at most MaxParas          *)
(* paragraphs out of four texts.                                           *)
(*   ParaA  37 characters, five tokens survive ("x" and "system" among     *)
(*          them)                                                          *)
(*   ParaB  40 characters between its blanks, four tokens survive          *)
(*   ParaF  40 characters, exactly three tokens survive                    *)
(*   ParaS  35 characters of which 30 are left by strip()                  *)
(***************************************************************************)
ParaA == <<"T", "h", "e", " ", "B", "u", "d", "g", "e", "t", ":", " ", "m", "a", "r", "k", "e", "t", " ", "g", "r", "o", "w", "t", "h", ",", " ", "x", "1", " ", "s", "y", "s", "t", "e", "m", "!">>
ParaB == <<" ", " ", "B", "u", "d", "g", "e", "t", " ", "p", "o", "l", "i", "c", "y", ";", " ", "t", "h", "e", " ", "b", "u", "d", "g", "e", "t", " ", "o", "f", " ", "p", "o", "l", "i", "c", "y", " ", "2", "0", "2", "4", " ", " ">>
ParaF == <<"T", "h", "e", " ", "m", "a", "r", "k", "e", "t", " ", "a", "n", "d", " ", "t", "h", "e", " ", "g", "r", "o", "w", "t", "h", " ", "o", "f", " ", "p", "o", "l", "i", "c", "y", " ", "1", "0", "0", "%">>
ParaS == <<" ", " ", " ", "B", "u", "d", "g", "e", "t", " ", "m", "a", "r", "k", "e", "t", " ", "g", "r", "o", "w", "t", "h", " ", "p", "o", "l", "i", "c", "y", " ", "x", "y", " ", " ">>
ParagraphPool == {ParaA, ParaB, ParaF, ParaS}

SeqsUpTo(S, n) == UNION {[1..k -> S] : k \in 0..n}
Documents == SeqsUpTo(ParagraphPool, MaxParas)

\* What the path given to LDAExtractor resolves to.
Files ==
    { [kind |-> "missing", paras |-> <<>>],
      [kind |-> "not_zip", paras |-> <<>>],
      [kind |-> "not_word", paras |-> <<>>] }
    \cup { [kind |-> "docx", paras |-> d] : d \in Documents }

\* The arguments of LDAExtractor(filepath, num_topics, words_per_topic).
TopicCounts == {0, 1, 2, 5}
WordsPerTopic == {0, 1, DefaultWordsPerTopic}

(***************************************************************************)
(* Exceptions: the classes the code can meet and Python's isinstance.      *)
(***************************************************************************)
Bases(cls) ==
    CASE cls = "FileNotFoundError" -> {"FileNotFoundError", "OSError", "Exception"}
      [] cls = "OSError" -> {"OSError", "Exception"}
      [] cls = "ValueError" -> {"ValueError", "Exception"}
      [] cls = "PackageNotFoundError" -> {"PackageNotFoundError", "Exception"}
      [] cls = "HTTPException" -> {"HTTPException", "Exception"}
      [] OTHER -> {cls, "Exception"}
IsInstance(cls, base) == base \in Bases(cls)

(***************************************************************************)
(* State.                                                                  *)
(***************************************************************************)
VARIABLES
    disk,       \* what the path (self.filepath, the temporary file) resolves to
    args,       \* the caller's num_topics and words_per_topic
    ext,        \* the LDAExtractor instance: its fields, or NoExtractor
    pc,         \* where run_pipeline stands
    lda,        \* the locals of run_pipeline: lda, dtm, terms
    exc,        \* the exception run_pipeline raised, or "none"
    runs,       \* what each finished run_pipeline call gave its caller
    fitMemo,    \* the values LatentDirichletAllocation.fit has had so far
    sortMemo,   \* the orders argsort has given to rows so far
    entropy,    \* the operating system's entropy, fresh at each fit
    hpc,        \* where extract_topics_api stands
    upload,     \* the request: file name, content, num_topics
    tmp_path,   \* the handler's tmp_path
    tmpMade,    \* whether the handler created a temporary file
    response    \* the handler's answer

vars == <<disk, args, ext, pc, lda, exc, runs, fitMemo, sortMemo, entropy,
          hpc, upload, tmp_path, tmpMade, response>>
coreVars == <<ext, pc, lda, exc, runs, fitMemo, sortMemo, entropy>>
apiVars == <<hpc, upload, tmp_path, tmpMade, response>>

NoExtractor == [made |-> FALSE]
NoModel == [fitted |-> FALSE]
NoUpload == [filename |-> "none"]
NoResponse == [status |-> 0]

(***************************************************************************)
(* LDAExtractor.__init__                                                   *)
(***************************************************************************)
NewExtractor(num_topics, words_per_topic) ==
    [made |-> TRUE,
     num_topics |-> num_topics,
     words_per_topic |-> words_per_topic,
     paragraphs |-> <<>>,
     cleaned |-> <<>>,
     topics |-> <<>>]

(***************************************************************************)
(* LDAExtractor.load_docx                                                  *)
(***************************************************************************)
\* the condition of the list comprehension
KeepParagraph(text) == Len(Strip(text)) > MinParagraphLen

\* docx.Document(path): the exception it raises, "none" for a Word document
DocumentError(file) ==
    CASE file.kind = "docx" -> "none"
      [] file.kind = "not_word" -> "ValueError"
      [] OTHER -> "PackageNotFoundError"

RECURSIVE LoadParagraphs(_)
LoadParagraphs(paras) ==
    IF paras = <<>> THEN <<>>
    ELSE (IF KeepParagraph(Head(paras)) THEN <<Strip(Head(paras))>> ELSE <<>>)
         \o LoadParagraphs(Tail(paras))

(***************************************************************************)
(* LDAExtractor.preprocess                                                 *)
(***************************************************************************)
\* tokens = [w for w in txt.split() if w not in stop_words]
Tokens(para) ==
    SelectSeq(Split(SubNonAlpha(LowerStr(para))), LAMBDA w : w \notin NltkStopWords)

\* len(tokens) >= 3
KeepTokensAtLeast(tokens) == Len(tokens) >= MinTokens

\* if len(tokens) > 3
KeepTokens(tokens) == Len(tokens) > MinTokens

\* the loop over self.paragraphs, appending to `cleaned`
RECURSIVE PreprocessInto(_, _)
PreprocessInto(cleaned, paras) ==
    IF paras = <<>> THEN cleaned
    ELSE LET tokens == Tokens(Head(paras))
         IN  PreprocessInto(IF KeepTokens(tokens) THEN Append(cleaned, Join(tokens))
                                                   ELSE cleaned,
                            Tail(paras))

(***************************************************************************)
(* LDAExtractor.vectorize_and_fit: CountVectorizer(max_df=0.85, min_df=2,  *)
(* stop_words="english").fit_transform                                     *)
(***************************************************************************)
\* token_pattern (?u)\b\w\w+\b: the runs of two or more word characters
TokenPattern(doc) ==
    LET spaced == [i \in DOMAIN doc |-> IF IsWordChar(doc[i]) THEN doc[i] ELSE " "]
    IN  SelectSeq(Split(spaced), LAMBDA w : Len(w) >= 2)

\* the analyzer: lowercase, token pattern, stop words
Analyze(doc) == SelectSeq(TokenPattern(LowerStr(doc)), LAMBDA w : w \notin SklearnStopWords)

\* the analyzer over the corpus, document by document
RECURSIVE AnalyzeAll(_)
AnalyzeAll(docs) ==
    IF docs = <<>> THEN <<>> ELSE <<Analyze(Head(docs))>> \o AnalyzeAll(Tail(docs))

\* _count_vocab: the terms met, and the count of a term in a document
RawVocabulary(analyzed) == UNION {Range(analyzed[d]) : d \in DOMAIN analyzed}
CountIn(term, tokens) == Cardinality({i \in DOMAIN tokens : tokens[i] = term})
DocFreq(term, analyzed) ==
    Cardinality({d \in DOMAIN analyzed : term \in Range(analyzed[d])})

\* _limit_features: max_df=0.85 is a proportion of the documents, min_df=2 a count
\* max_df=1.0
WithinMaxDfAll(df, n) == 100 * df <= 100 * n
WithinMaxDf(df, n) == 100 * df <= MaxDfPercent * n
WithinMinDf(df) == df >= MinDf
KeptTerms(analyzed) ==
    {t \in RawVocabulary(analyzed) :
        LET df == DocFreq(t, analyzed)
        IN  WithinMaxDf(df, Len(analyzed)) /\ WithinMinDf(df)}

\* a vectorizer that raises nothing
VectorizeErrorNever(analyzed) == "none"

\* fit_transform's ValueErrors: an empty vocabulary, max_df below min_df, all pruned
VectorizeError(analyzed) ==
    IF RawVocabulary(analyzed) = {} THEN "ValueError"
    ELSE IF MaxDfPercent * Len(analyzed) < 100 * MinDf THEN "ValueError"
    ELSE IF KeptTerms(analyzed) = {} THEN "ValueError"
    ELSE "none"

\* the matrix fit_transform returns and vec.get_feature_names_out()
TermMatrix(analyzed, names) ==
    [d \in DOMAIN analyzed |-> [t \in DOMAIN names |-> CountIn(names[t], analyzed[d])]]

VectorizeOn(analyzed) ==
    IF VectorizeError(analyzed) # "none"
    THEN [error |-> VectorizeError(analyzed), feature_names |-> <<>>, dtm |-> <<>>]
    ELSE LET names == SortedTerms(KeptTerms(analyzed))
         IN  [error |-> "none", feature_names |-> names, dtm |-> TermMatrix(analyzed, names)]

FitTransform(docs) == VectorizeOn(AnalyzeAll(docs))

(***************************************************************************)
(* LatentDirichletAllocation(n_components, random_state=42,                *)
(* learning_method="batch").fit                                            *)
(***************************************************************************)
\* random_state=None: the seed is the entropy of the moment
RandomStateNone(e) == e

\* random_state=42: the seed does not depend on the entropy of the moment
RandomState(e) == 42

\* n_components not validated
FitErrorNever(n_components) == "none"

\* n_components must be at least 1 (InvalidParameterError, a ValueError)
FitError(n_components) == IF n_components < 1 THEN "ValueError" ELSE "none"

Rotate(row, k) == [t \in DOMAIN row |-> row[((t - 1 + k) % Len(row)) + 1]]

\* The weight matrices the model lets fit return: n_components rows over the
\* vocabulary, each a rotation of one freely drawn row of positive weights.
FitOutcomes(n_components, nTerms) ==
    { [k \in 1..n_components |-> Rotate(row, k - 1)] : row \in [1..nTerms -> 1..MaxWeight] }

FitKey(dtm, n_components, e) == <<dtm, n_components, RandomState(e)>>

(***************************************************************************)
(* LDAExtractor.extract_topics                                             *)
(***************************************************************************)
IndexOrders(n) == {p \in [1..n -> 1..n] : \A i, j \in 1..n : i # j => p[i] # p[j]}

\* the index orders ndarray.argsort() can give: ascending weight
ArgsortOutcomes(row) ==
    {p \in IndexOrders(Len(row)) : \A i, j \in DOMAIN row : i < j => row[p[i]] <= row[p[j]]}

\* argsort is a function of the row: a row sorted before is sorted the same way
\* again, and a row not met before gets any ascending order
RECURSIVE SortOrders(_, _)
SortOrders(rows, memo) ==
    IF rows = {} THEN {EmptyMemo}
    ELSE LET r == CHOOSE x \in rows : TRUE
             allowed == IF r \in DOMAIN memo THEN {memo[r]} ELSE ArgsortOutcomes(r)
         IN  { [x \in DOMAIN f \cup {r} |-> IF x = r THEN p ELSE f[x]] :
                  f \in SortOrders(rows \ {r}, memo), p \in allowed }

\* one iteration of the loop, given the order argsort gave
TitleOf(order, feature_names, words_per_topic) ==
    LET top_idxs == PySliceLast(order, words_per_topic)
        words == [i \in DOMAIN top_idxs |-> feature_names[top_idxs[i]]]
    IN  TitleCase(Join(Reverse(words)))

\* the whole loop, appending to `topics`
RECURSIVE ExtractInto(_, _, _, _, _)
ExtractInto(topics, components, order, feature_names, words_per_topic) ==
    IF components = <<>> THEN topics
    ELSE ExtractInto(
            Append(topics, TitleOf(order[Head(components)], feature_names, words_per_topic)),
            Tail(components), order, feature_names, words_per_topic)

(***************************************************************************)
(* run_pipeline, one action per statement.                                 *)
(***************************************************************************)
\* the exception leaves run_pipeline: the caller gets no value
Raises(cls) ==
    /\ pc' = "idle"
    /\ exc' = cls
    /\ runs' = Append(runs, [outcome |-> cls, value |-> <<>>])

\* self.load_docx()
LoadDocx ==
    /\ pc = "constructed"
    /\ IF DocumentError(disk) # "none"
       THEN /\ Raises(DocumentError(disk))
            /\ UNCHANGED ext
       ELSE /\ ext' = [ext EXCEPT !.paragraphs = LoadParagraphs(disk.paras)]
            /\ pc' = "loaded"
            /\ UNCHANGED <<exc, runs>>
    /\ UNCHANGED <<disk, args, lda, fitMemo, sortMemo, entropy>>

\* self.preprocess()
Preprocess ==
    /\ pc = "loaded"
    /\ ext' = [ext EXCEPT !.cleaned = PreprocessInto(ext.cleaned, ext.paragraphs)]
    /\ pc' = "preprocessed"
    /\ UNCHANGED <<disk, args, lda, exc, runs, fitMemo, sortMemo, entropy>>

\* vectorize_and_fit, first statements: vec = CountVectorizer(...);
\* dtm = vec.fit_transform(self.cleaned)
Vectorize ==
    /\ pc = "preprocessed"
    /\ \E vec \in {FitTransform(ext.cleaned)} :
          IF vec.error # "none"
          THEN Raises(vec.error) /\ UNCHANGED lda
          ELSE /\ lda' = [fitted |-> FALSE, dtm |-> vec.dtm,
                          feature_names |-> vec.feature_names]
               /\ pc' = "vectorized"
               /\ UNCHANGED <<exc, runs>>
    /\ UNCHANGED <<disk, args, ext, fitMemo, sortMemo, entropy>>

\* vectorize_and_fit, the rest: lda = LatentDirichletAllocation(...); lda.fit(dtm);
\* return lda, dtm, vec.get_feature_names_out()
Fit ==
    /\ pc = "vectorized"
    /\ entropy' = entropy + 1
    /\ IF FitError(ext.num_topics) # "none"
       THEN Raises(FitError(ext.num_topics)) /\ UNCHANGED <<lda, fitMemo>>
       ELSE /\ \E m \in FitOutcomes(ext.num_topics, Len(lda.feature_names)) :
                  LET key == FitKey(lda.dtm, ext.num_topics, entropy)
                  IN  /\ key \in DOMAIN fitMemo => m = fitMemo[key]
                      /\ fitMemo' = [k \in DOMAIN fitMemo \cup {key} |->
                                        IF k = key THEN m ELSE fitMemo[k]]
                      /\ lda' = [lda EXCEPT !.fitted = TRUE] @@ [components |-> m]
            /\ pc' = "fitted"
            /\ UNCHANGED <<exc, runs>>
    /\ UNCHANGED <<disk, args, ext, sortMemo>>

\* self.extract_topics(lda, terms)
ExtractTopics ==
    /\ pc = "fitted"
    /\ \E order \in SortOrders(Range(lda.components), sortMemo) :
          /\ sortMemo' = [r \in DOMAIN sortMemo \cup DOMAIN order |->
                             IF r \in DOMAIN order THEN order[r] ELSE sortMemo[r]]
          /\ ext' = [ext EXCEPT !.topics =
                        ExtractInto(ext.topics, lda.components, order,
                                    lda.feature_names, ext.words_per_topic)]
    /\ pc' = "labelled"
    /\ UNCHANGED <<disk, args, lda, exc, runs, fitMemo, entropy>>

\* return self.topics
Return ==
    /\ pc = "labelled"
    /\ pc' = "idle"
    /\ runs' = Append(runs, [outcome |-> "ok", value |-> ext.topics])
    /\ UNCHANGED <<disk, args, ext, lda, exc, fitMemo, sortMemo, entropy>>

(***************************************************************************)
(* Spec: a caller of the class, as main.py is one: each run_pipeline call  *)
(* is made on an extractor constructed for it, with the same path and      *)
(* arguments every time.                                                   *)
(***************************************************************************)
CoreInit ==
    /\ ext = NoExtractor
    /\ pc = "idle"
    /\ lda = NoModel
    /\ exc = "none"
    /\ runs = <<>>
    /\ fitMemo = EmptyMemo
    /\ sortMemo = EmptyMemo
    /\ entropy = 0

ApiIdle ==
    /\ hpc = "none"
    /\ upload = NoUpload
    /\ tmp_path = "None"
    /\ tmpMade = FALSE
    /\ response = NoResponse

Init ==
    /\ disk \in Files
    /\ args \in [num_topics : TopicCounts, words_per_topic : WordsPerTopic]
    /\ CoreInit
    /\ ApiIdle

\* extractor = LDAExtractor(path, num_topics, words_per_topic); run_pipeline()
Construct ==
    /\ pc = "idle"
    /\ Len(runs) < MaxRuns
    /\ ext' = NewExtractor(args.num_topics, args.words_per_topic)
    /\ pc' = "constructed"
    /\ lda' = NoModel
    /\ exc' = "none"
    /\ UNCHANGED <<disk, args, runs, fitMemo, sortMemo, entropy>>

Next ==
    \/ Construct /\ UNCHANGED apiVars
    \/ LoadDocx /\ UNCHANGED apiVars
    \/ Preprocess /\ UNCHANGED apiVars
    \/ Vectorize /\ UNCHANGED apiVars
    \/ Fit /\ UNCHANGED apiVars
    \/ ExtractTopics /\ UNCHANGED apiVars
    \/ Return /\ UNCHANGED apiVars

Spec == Init /\ [][Next]_vars

(***************************************************************************)
(* SpecReuse: a caller that keeps one extractor and calls run_pipeline on  *)
(* it again, after a return or after an exception.                         *)
(***************************************************************************)
ConstructOnce ==
    /\ ~ext.made
    /\ Construct

\* await extractor.run_pipeline(), on the extractor of the call before
Rerun ==
    /\ pc = "idle"
    /\ ext.made
    /\ Len(runs) < MaxRuns
    /\ pc' = "constructed"
    /\ lda' = NoModel
    /\ exc' = "none"
    /\ UNCHANGED <<disk, args, ext, runs, fitMemo, sortMemo, entropy>>

NextReuse ==
    \/ ConstructOnce /\ UNCHANGED apiVars
    \/ Rerun /\ UNCHANGED apiVars
    \/ LoadDocx /\ UNCHANGED apiVars
    \/ Preprocess /\ UNCHANGED apiVars
    \/ Vectorize /\ UNCHANGED apiVars
    \/ Fit /\ UNCHANGED apiVars
    \/ ExtractTopics /\ UNCHANGED apiVars
    \/ Return /\ UNCHANGED apiVars

SpecReuse == Init /\ [][NextReuse]_vars

(***************************************************************************)
(* extract_topics_api: one request, one action per statement.  `disk` is   *)
(* what the temporary file's path resolves to.                             *)
(***************************************************************************)
Uploads ==
    [docx_name : BOOLEAN,
     content : {f \in Files : f.kind # "missing"},
     num_topics : TopicCounts]

TmpOnDisk == disk.kind # "missing"

\* the except clauses, in their order: the status of the HTTPException raised
HandlerStatus(cls, own_status) ==
    IF IsInstance(cls, "FileNotFoundError") THEN 404
    ELSE IF IsInstance(cls, "ValueError") THEN 400
    ELSE IF IsInstance(cls, "HTTPException") THEN own_status
    ELSE 500

\* str(i) for 0 <= i <= 99
DigitChars == <<"0", "1", "2", "3", "4", "5", "6", "7", "8", "9">>
IntStr(i) ==
    IF i < 10 THEN <<DigitChars[i + 1]>>
    ELSE <<DigitChars[(i \div 10) + 1], DigitChars[(i % 10) + 1]>>

\* [f"{i+1}) {t}" for i, t in enumerate(topics)]
FormatTopics(topics) == [i \in DOMAIN topics |-> IntStr(i) \o <<")", " ">> \o topics[i]]

ApiInit ==
    /\ upload \in Uploads
    /\ hpc = "request"
    /\ disk = [kind |-> "missing", paras |-> <<>>]
    /\ args = [num_topics |-> upload.num_topics, words_per_topic |-> DefaultWordsPerTopic]
    /\ tmp_path = "None"
    /\ tmpMade = FALSE
    /\ response = NoResponse
    /\ CoreInit

\* an exception reaches the except clauses, then finally
Caught(cls, own_status) ==
    /\ response' = [status |-> HandlerStatus(cls, own_status), topics |-> <<>>]
    /\ hpc' = "finally"

\* num_topics: int = Form(10, ge=1): a request below 1 is answered 422 and the
\* handler is not called
Validate ==
    /\ hpc = "request"
    /\ IF upload.num_topics < 1
       THEN /\ response' = [status |-> 422, topics |-> <<>>]
            /\ hpc' = "done"
       ELSE /\ hpc' = "entered"
            /\ UNCHANGED response
    /\ UNCHANGED <<disk, args, upload, tmp_path, tmpMade>>
    /\ UNCHANGED coreVars

\* if not file.filename.endswith(".docx"): raise HTTPException(400)
CheckFilename ==
    /\ hpc = "entered"
    /\ IF upload.docx_name
       THEN hpc' = "checked" /\ UNCHANGED response
       ELSE Caught("HTTPException", 400)
    /\ UNCHANGED <<disk, args, upload, tmp_path, tmpMade>>
    /\ UNCHANGED coreVars

\* with tempfile.NamedTemporaryFile(delete=False, suffix=".docx") as tmp:
OpenTemp ==
    /\ hpc = "checked"
    /\ disk' = [kind |-> "not_zip", paras |-> <<>>]
    /\ tmpMade' = TRUE
    /\ hpc' = "opened"
    /\ UNCHANGED <<args, upload, tmp_path, response>>
    /\ UNCHANGED coreVars

\* contents = await file.read(): the read may fail
ReadUpload ==
    /\ hpc = "opened"
    /\ \/ hpc' = "read" /\ UNCHANGED response
       \/ Caught("Exception", 0)
    /\ UNCHANGED <<disk, args, upload, tmp_path, tmpMade>>
    /\ UNCHANGED coreVars

\* tmp.write(contents): the write may fail (OSError)
WriteTemp ==
    /\ hpc = "read"
    /\ \/ /\ disk' = upload.content
          /\ hpc' = "written"
          /\ UNCHANGED response
       \/ /\ Caught("OSError", 0)
          /\ UNCHANGED disk
    /\ UNCHANGED <<args, upload, tmp_path, tmpMade>>
    /\ UNCHANGED coreVars

\* tmp_path = tmp.name, the last statement of the with block
SetTmpPath ==
    /\ hpc = "written"
    /\ tmp_path' = "tmp.docx"
    /\ hpc' = "stored"
    /\ UNCHANGED <<disk, args, upload, tmpMade, response>>
    /\ UNCHANGED coreVars

\* extractor = LDAExtractor(tmp_path, num_topics); await extractor.run_pipeline()
StartPipeline ==
    /\ hpc = "stored"
    /\ hpc' = "running"
    /\ ext' = NewExtractor(upload.num_topics, DefaultWordsPerTopic)
    /\ pc' = "constructed"
    /\ UNCHANGED <<disk, args, upload, tmp_path, tmpMade, response>>
    /\ UNCHANGED <<lda, exc, runs, fitMemo, sortMemo, entropy>>

\* run_pipeline has returned: the response; or raised: the except clauses
Respond ==
    /\ hpc = "running"
    /\ pc = "idle"
    /\ LET r == runs[Len(runs)]
       IN  IF r.outcome = "ok"
           THEN /\ response' = [status |-> 200, topics |-> FormatTopics(r.value)]
                /\ hpc' = "finally"
           ELSE Caught(r.outcome, 0)
    /\ UNCHANGED <<disk, args, upload, tmp_path, tmpMade>>
    /\ UNCHANGED coreVars

\* finally: if tmp_path and os.path.exists(tmp_path): os.remove(tmp_path), whose
\* OSError is logged
Finally ==
    /\ hpc = "finally"
    /\ hpc' = "done"
    /\ IF tmp_path # "None" /\ TmpOnDisk
       THEN \/ disk' = [kind |-> "missing", paras |-> <<>>]
            \/ UNCHANGED disk
       ELSE UNCHANGED disk
    /\ UNCHANGED <<args, upload, tmp_path, tmpMade, response>>
    /\ UNCHANGED coreVars

Running == hpc = "running" /\ UNCHANGED apiVars

NextApi ==
    \/ Validate
    \/ CheckFilename
    \/ OpenTemp
    \/ ReadUpload
    \/ WriteTemp
    \/ SetTmpPath
    \/ StartPipeline
    \/ LoadDocx /\ Running
    \/ Preprocess /\ Running
    \/ Vectorize /\ Running
    \/ Fit /\ Running
    \/ ExtractTopics /\ Running
    \/ Return /\ Running
    \/ Respond
    \/ Finally

SpecApi == ApiInit /\ [][NextApi]_vars

(***************************************************************************)
(* The vocabulary of the claims, stated apart from the operators above.    *)
(***************************************************************************)
\* a run_pipeline call has ended, and `ext` is the extractor it ran on
Finished == pc = "idle" /\ runs # <<>>
LastRun == runs[Len(runs)]

\* the length of a text without its leading and trailing whitespace
TrimmedLen(p) ==
    IF \A i \in DOMAIN p : IsSpace(p[i]) THEN 0
    ELSE LET first == CHOOSE i \in DOMAIN p :
                          ~IsSpace(p[i]) /\ \A j \in 1..(i - 1) : IsSpace(p[j])
             last == CHOOSE i \in DOMAIN p :
                         ~IsSpace(p[i]) /\ \A j \in (i + 1)..Len(p) : IsSpace(p[j])
         IN  last - first + 1

\* the maximal runs of ASCII letters of a text, lower-cased
LetterRunStarts(p) == {i \in DOMAIN p : IsCased(p[i]) /\ (i = 1 \/ ~IsCased(p[i - 1]))}
LetterRunAt(p, i) ==
    LET j == CHOOSE j \in i..Len(p) :
                /\ j = Len(p) \/ ~IsCased(p[j + 1])
                /\ \A k \in i..j : IsCased(p[k])
    IN  LowerStr(SubSeq(p, i, j))

\* those of them that are no nltk stop word, left to right
SurvivingWords(p) ==
    LET starts == {i \in LetterRunStarts(p) : LetterRunAt(p, i) \notin NltkStopWords}
    IN  [k \in 1..Cardinality(starts) |->
            LetterRunAt(p, CHOOSE i \in starts : Cardinality({j \in starts : j < i}) = k - 1)]

\* lower-case words with exactly one blank between two of them
SingleSpaced(e) ==
    \A i \in DOMAIN e :
        /\ e[i] = " " \/ IsLower(e[i])
        /\ e[i] = " " => (i > 1 /\ i < Len(e) /\ e[i + 1] # " ")

\* the terms of the cleaned documents, by whitespace, document by document
DocTerms(docs) == {<<d, Range(Split(docs[d]))>> : d \in DOMAIN docs}
TermsOf(dts) == UNION {p[2] : p \in dts}
CleanedTerms(docs) == TermsOf(DocTerms(docs))

\* the number of documents a term is in
DfIn(t, dts) == Cardinality({p \in dts : t \in p[2]})
TermDf(t, docs) == DfIn(t, DocTerms(docs))
TermCount(t, doc) == LET ws == Split(doc) IN Cardinality({i \in DOMAIN ws : ws[i] = t})

\* in at least 2 and in at most 85% of the documents, and no stop word
Eligible(t, dts) ==
    LET df == DfIn(t, dts)
    IN  df >= 2 /\ 100 * df <= 85 * Cardinality(dts) /\ t \notin SklearnStopWords

\* no term of two characters or more is eligible
NoVocabulary(docs) ==
    LET dts == DocTerms(docs)
    IN  \A t \in TermsOf(dts) : ~(Len(t) >= 2 /\ Eligible(t, dts))

\* the vocabulary is the eligible terms of at least `shortest` characters
VocabularyRule(docs, names, shortest) ==
    LET dts == DocTerms(docs)
    IN  /\ \A t \in TermsOf(dts) :
              t \in Range(names) <=> (Len(t) >= shortest /\ Eligible(t, dts))
        /\ Range(names) \subseteq TermsOf(dts)

\* the matrix holds the counts of the vocabulary's terms, document by document
MatrixCounts(docs, names, dtm) ==
    /\ Len(dtm) = Len(docs)
    /\ \A d \in DOMAIN docs :
          /\ Len(dtm[d]) = Len(names)
          /\ \A t \in DOMAIN names : dtm[d][t] = TermCount(names[t], docs[d])

\* a title of at most n capitalised words of the vocabulary
WellFormed(title, n, names) ==
    /\ title # <<>>
    /\ Len(Split(title)) <= n
    /\ \A w \in Range(Split(title)) : IsUpper(w[1]) /\ LowerStr(w) \in Range(names)

\* the vocabulary indices of a title's words, in the title's order
TitleIndices(title, names) ==
    LET ws == Split(LowerStr(title))
    IN  [i \in DOMAIN ws |-> CHOOSE t \in DOMAIN names : names[t] = ws[i]]

\* the title holds the min(n, V) heaviest terms of the row, heaviest first
HeaviestFirst(row, title, n, names) ==
    LET idx == TitleIndices(title, names)
        chosen == Range(idx)
    IN  /\ Range(Split(LowerStr(title))) \subseteq Range(names)
        /\ Len(idx) = Min(n, Len(names))
        /\ \A i, j \in DOMAIN idx : i < j => idx[i] # idx[j] /\ row[idx[i]] >= row[idx[j]]
        /\ \A t \in DOMAIN names \ chosen : \A c \in chosen : row[t] <= row[c]

\* among equal weights the lower vocabulary index is selected first and stands first
TiesLowestIndexFirst(row, title, names) ==
    LET idx == TitleIndices(title, names)
        chosen == Range(idx)
    IN  /\ \A i, j \in DOMAIN idx : (i < j /\ row[idx[i]] = row[idx[j]]) => idx[i] < idx[j]
        /\ \A t \in DOMAIN names \ chosen : \A c \in chosen : row[t] = row[c] => c < t

HasTie(row) == \E i, j \in DOMAIN row : i # j /\ row[i] = row[j]

C2_InsufficientContent ==
    Finished =>
        /\ ( /\ disk.kind = "docx"
             /\ \/ \A i \in DOMAIN disk.paras : TrimmedLen(disk.paras[i]) <= 30
                \/ ext.paragraphs = <<>>
                \/ ext.cleaned = <<>>
                \/ NoVocabulary(ext.cleaned) )
           => /\ LastRun.outcome = "ValueError"
              /\ HandlerStatus(LastRun.outcome, 0) = 400
              /\ LastRun.value = <<>>
              /\ ext.topics = <<>>
              /\ ~lda.fitted
        /\ LastRun.outcome = "ok" => LastRun.value # <<>>

\* a document with paragraphs, none of them longer than 30, has failed
C2_OnlyShortParagraphs ==
    /\ Finished
    /\ disk.kind = "docx"
    /\ disk.paras # <<>>
    /\ \A i \in DOMAIN disk.paras : TrimmedLen(disk.paras[i]) <= 30
    /\ LastRun.outcome = "ValueError"

(***************************************************************************)
(* C3                                                                      *)
(***************************************************************************)
\* C3 as claimed: when the handler has finished, a temporary file it created
\* is no longer on disk, whatever the path taken.
C3_TempFileDeleted == (hpc = "done" /\ tmpMade) => ~TmpOnDisk

(***************************************************************************)
(* C4                                                                      *)
(***************************************************************************)
\* C4 as claimed: a failed extraction is reported as one of not-found (404),
\* data error (400) and internal failure (500), by its cause: a path that does
\* not resolve to a readable file is a FileNotFoundError and a 404, input
\* without usable text a ValueError and a 400, and a 500 is neither; an
\* HTTPException keeps its own status.
C4_FailureKinds ==
    (Finished /\ LastRun.outcome # "ok") =>
        LET cls == LastRun.outcome
            status == HandlerStatus(cls, 0)
            notFound == disk.kind = "missing"
            noText == disk.kind = "docx" /\ NoVocabulary(ext.cleaned)
        IN  /\ status \in {404, 400, 500}
            /\ notFound => (cls = "FileNotFoundError" /\ status = 404)
            /\ noText => (cls = "ValueError" /\ status = 400)
            /\ status = 500 => (~notFound /\ ~noText)
            /\ HandlerStatus("HTTPException", 400) = 400

(***************************************************************************)
(* C5                                                                      *)
(***************************************************************************)
\* C5 as claimed: after a successful labeling, for every words_per_topic, every
\* title is non-empty, has at most words_per_topic words, each beginning with an
\* upper-case letter and each (lower-cased) a term of the vocabulary.
C5_TitlesWellFormed ==
    pc = "labelled" =>
        \A k \in DOMAIN ext.topics :
            WellFormed(ext.topics[k], ext.words_per_topic, lda.feature_names)

\* C5 as amended: the same for every words_per_topic >= 1.
C5_TitlesWellFormedPositive ==
    (pc = "labelled" /\ ext.words_per_topic >= 1) =>
        \A k \in DOMAIN ext.topics :
            WellFormed(ext.topics[k], ext.words_per_topic, lda.feature_names)

\* titles cut to fewer words than the vocabulary has terms
C5_TitlesCut ==
    /\ pc = "labelled"
    /\ ext.words_per_topic >= 1
    /\ ext.words_per_topic < Len(lda.feature_names)
    /\ ext.topics # <<>>

(***************************************************************************)
(* C6                                                                      *)
(***************************************************************************)
\* C6: the runs on newly constructed extractors, with the same document and the
\* same arguments, end alike: the same titles in the same order, or the same
\* exception.
C6_Deterministic == \A i, j \in DOMAIN runs : runs[i] = runs[j]

\* two runs have returned titles, and argsort has had equal weights to order
C6_TwoRunsReturned ==
    /\ Len(runs) >= 2
    /\ runs[1].outcome = "ok"
    /\ runs[2].outcome = "ok"
    /\ Len(runs[2].value) >= 2
    /\ \E r \in DOMAIN sortMemo : HasTie(r)

(***************************************************************************)
(* C7                                                                      *)
(***************************************************************************)
\* C7: after load_docx and preprocess every paragraph kept has trimmed length
\* over 30 and there is one for each such paragraph of the document; `cleaned`
\* has one entry for exactly the kept paragraphs with more than 3 surviving
\* words, in the paragraphs' order, each entry those words with single blanks.
C7_Filtering ==
    pc = "preprocessed" =>
        /\ \A i \in DOMAIN ext.paragraphs : TrimmedLen(ext.paragraphs[i]) > 30
        /\ Len(ext.paragraphs)
              = Cardinality({i \in DOMAIN disk.paras : TrimmedLen(disk.paras[i]) > 30})
        /\ LET kept == {i \in DOMAIN ext.paragraphs :
                            Len(SurvivingWords(ext.paragraphs[i])) > 3}
           IN  /\ Len(ext.cleaned) = Cardinality(kept)
               /\ \A i \in kept :
                     LET e == ext.cleaned[1 + Cardinality({j \in kept : j < i})]
                     IN  /\ Split(e) = SurvivingWords(ext.paragraphs[i])
                         /\ SingleSpaced(e)

\* a document of which one paragraph fell to the length filter, one to the token
\* filter, and one was cleaned
C7_BothFiltersActed ==
    /\ pc = "preprocessed"
    /\ Len(ext.paragraphs) < Len(disk.paras)
    /\ Len(ext.cleaned) < Len(ext.paragraphs)
    /\ ext.cleaned # <<>>

(***************************************************************************)
(* C8                                                                      *)
(***************************************************************************)
\* C8 as claimed: when vectorization succeeds, a term of the cleaned documents
\* is in the vocabulary iff it is in at least 2 and in at most 85% of them and
\* is no stop word; the matrix holds the terms' counts.
C8_VocabularyByFrequency ==
    pc = "vectorized" =>
        /\ VocabularyRule(ext.cleaned, lda.feature_names, 1)
        /\ MatrixCounts(ext.cleaned, lda.feature_names, lda.dtm)

\* C8 as amended: the same for the terms of at least two characters; a term of
\* one character is never in the vocabulary.
C8_VocabularyOfLongerTerms ==
    pc = "vectorized" =>
        /\ VocabularyRule(ext.cleaned, lda.feature_names, 2)
        /\ MatrixCounts(ext.cleaned, lda.feature_names, lda.dtm)

\* a vocabulary beside a term in every document and a term in one document only
C8_BothBoundsActed ==
    /\ pc = "vectorized"
    /\ lda.feature_names # <<>>
    /\ \E t \in CleanedTerms(ext.cleaned) :
          Len(t) >= 2 /\ TermDf(t, ext.cleaned) = Len(ext.cleaned)
    /\ \E t \in CleanedTerms(ext.cleaned) :
          Len(t) >= 2 /\ t \notin SklearnStopWords /\ TermDf(t, ext.cleaned) = 1

(***************************************************************************)
(* C9                                                                      *)
(***************************************************************************)
\* C9 as claimed (for words_per_topic >= 1): one title per row of the weight
\* matrix, in row order, holding the words_per_topic heaviest terms, heaviest
\* first, and of two terms of equal weight the one of lower vocabulary index is
\* selected first and stands earlier.
C9_HeaviestFirstTiesByIndex ==
    (pc = "labelled" /\ ext.words_per_topic >= 1) =>
        /\ Len(ext.topics) = Len(lda.components)
        /\ \A k \in DOMAIN lda.components :
              /\ HeaviestFirst(lda.components[k], ext.topics[k],
                               ext.words_per_topic, lda.feature_names)
              /\ TiesLowestIndexFirst(lda.components[k], ext.topics[k], lda.feature_names)

\* C9 as amended: for words_per_topic >= 1, one title per row, in row order,
\* holding the min(words_per_topic, V) heaviest terms in order of non-increasing
\* weight; which of two terms of equal weight is selected, and which stands
\* first, is argsort's choice.
C9_HeaviestFirst ==
    (pc = "labelled" /\ ext.words_per_topic >= 1) =>
        /\ Len(ext.topics) = Len(lda.components)
        /\ \A k \in DOMAIN lda.components :
              HeaviestFirst(lda.components[k], ext.topics[k],
                            ext.words_per_topic, lda.feature_names)

\* several rows over several terms of different weights have been labelled
C9_RowsLabelled ==
    /\ pc = "labelled"
    /\ ext.words_per_topic >= 1
    /\ Len(lda.components) >= 2
    /\ Len(lda.feature_names) >= 2
    /\ ~HasTie(lda.components[1])
    /\ lda.components[1] # lda.components[2]

(***************************************************************************)
(* C10                                                                     *)
(***************************************************************************)
\* C10 as claimed: every run_pipeline call on one extractor gives what the
\* first call gave, and a ResultSet of exactly K titles.
C10_Idempotent ==
    \A i \in DOMAIN runs :
        /\ runs[i] = runs[1]
        /\ runs[i].outcome = "ok" => Len(runs[i].value) = args.num_topics

====
